---- MODULE Spec2Model ----
(***************************************************************************)
(* Model of the filrewards service (api/filrewardsd/service/service.go):   *)
(* the reward ledger and its unique indexes, the claim ledger, the two     *)
(* in-memory reward caches, the per-organization semaphore pool, and the   *)
(* handlers ProcessAnalyticsEvent, Claim, Balance, ListRewards and         *)
(* ListClaims, together with New (cache seeding at process start).         *)
(*                                                                         *)
(* Each handler is run by a task (one goroutine per inbound request).  A   *)
(* handler is cut into steps at the points where it touches state shared   *)
(* with other goroutines: the semaphore, the cache maps, the collections   *)
(* and the analytics client.                                               *)
(***************************************************************************)
EXTENDS Integers, Sequences, FiniteSets, TLC

(***************************************************************************)
(* Bounds and input sets.                                                  *)
(***************************************************************************)
NumTasks == 2
MaxClaims == 2
MaxTime == 2

Tasks == 1..NumTasks
\* one task is enough to fill the ledgers that the list handlers page over
ListTasks == {1}

\* keys a request may carry; organization and developer keys are both strings
OrgKeys == {"", "a", "b"}
DevKeys == {"", "a"}
Claimants == {"u"}

\* config.BaseAttoFILReward
BaseAttoFILReward == 100
ClaimAmounts == {-50, 50, 150, 250}

(***************************************************************************)
(* Static tables.                                                          *)
(***************************************************************************)
REWARD_TYPE_UNSPECIFIED == "REWARD_TYPE_UNSPECIFIED"
EVENT_UNSPECIFIED == "EVENT_UNSPECIFIED"

\* the switch of ProcessAnalyticsEvent: analytics event -> reward type
RewardTypeOf(ev) ==
    CASE ev = "EVENT_KEY_ACCOUNT_CREATED" -> "REWARD_TYPE_FIRST_KEY_ACCOUNT_CREATED"
      [] ev = "EVENT_KEY_USER_CREATED" -> "REWARD_TYPE_FIRST_KEY_USER_CREATED"
      [] ev = "EVENT_ORG_CREATED" -> "REWARD_TYPE_FIRST_ORG_CREATED"
      [] ev = "EVENT_BILLING_SETUP" -> "REWARD_TYPE_INITIAL_BILLING_SETUP"
      [] ev = "EVENT_BUCKET_CREATED" -> "REWARD_TYPE_FIRST_BUCKET_CREATED"
      [] ev = "EVENT_BUCKET_ARCHIVE_CREATED" -> "REWARD_TYPE_FIRST_BUCKET_ARCHIVE_CREATED"
      [] ev = "EVENT_MAILBOX_CREATED" -> "REWARD_TYPE_FIRST_MAILBOX_CREATED"
      [] ev = "EVENT_THREAD_DB_CREATED" -> "REWARD_TYPE_FIRST_THREAD_DB_CREATED"
      [] OTHER -> REWARD_TYPE_UNSPECIFIED

\* rewardTypeMeta[t].factor
rewardTypeMeta(t) ==
    CASE t = "REWARD_TYPE_FIRST_KEY_ACCOUNT_CREATED" -> 3
      [] t = "REWARD_TYPE_FIRST_KEY_USER_CREATED" -> 1
      [] t = "REWARD_TYPE_FIRST_ORG_CREATED" -> 3
      [] t = "REWARD_TYPE_INITIAL_BILLING_SETUP" -> 1
      [] t = "REWARD_TYPE_FIRST_BUCKET_CREATED" -> 2
      [] t = "REWARD_TYPE_FIRST_BUCKET_ARCHIVE_CREATED" -> 2
      [] t = "REWARD_TYPE_FIRST_MAILBOX_CREATED" -> 1
      [] t = "REWARD_TYPE_FIRST_THREAD_DB_CREATED" -> 1
      [] OTHER -> 0

\* events a request may carry: the unspecified marker, a rewarded event
\* and an event the service does not reward
Events == {EVENT_UNSPECIFIED, "EVENT_BUCKET_CREATED", "EVENT_ACCOUNT_SIGN_IN"}
RewardTypes == {RewardTypeOf(e) : e \in Events} \ {REWARD_TYPE_UNSPECIFIED}

VARIABLES
    rewards,          \* the filrewards collection, in insertion order
    claims,           \* the filclaims collection, in insertion order
    rewardsCacheOrg,  \* Service.rewardsCacheOrg: key -> set of reward types
    rewardsCacheDev,  \* Service.rewardsCacheDev: key -> set of reward types
    semaphores,       \* Service.semaphores: key -> holder task, 0 when free
    up,               \* New returned a Service (FALSE: New panicked)
    pc,               \* position of each task in its handler
    req,              \* the request each task is serving, NoRequest when it serves none
    res,              \* the response each task returned last
    track,            \* outcome of the Track call of each task's request
    now,              \* the wall clock read by time.Now()
    listResp,         \* the last ListRewards / ListClaims response
    pager             \* a client following the cursors of a listing

vars == <<rewards, claims, rewardsCacheOrg, rewardsCacheDev, semaphores, up,
          pc, req, res, track, now, listResp, pager>>

storeVars == <<rewards, claims>>
cacheVars == <<rewardsCacheOrg, rewardsCacheDev>>
listVars == <<listResp, pager>>

(***************************************************************************)
(* Records of the two collections.                                         *)
(***************************************************************************)
reward(orgKey, devKey, t, createdAt) ==
    [OrgKey |-> orgKey, DevKey |-> devKey, Type |-> t,
     Factor |-> rewardTypeMeta(t), BaseAttoFILReward |-> BaseAttoFILReward,
     CreatedAt |-> createdAt]

claim(orgKey, claimedBy, amount, createdAt) ==
    [OrgKey |-> orgKey, ClaimedBy |-> claimedBy, Amount |-> amount,
     CreatedAt |-> createdAt]

Range(s) == {s[i] : i \in DOMAIN s}

RECURSIVE SumOver(_, _)
SumOver(S, f) ==
    IF S = {} THEN 0
    ELSE LET x == CHOOSE y \in S : TRUE IN f[x] + SumOver(S \ {x}, f)

(***************************************************************************)
(* The unique indexes of the filrewards collection, both partial: they     *)
(* cover only documents whose key is greater than the empty string.        *)
(***************************************************************************)
OrgTypeIndexViolated(col, r) ==
    /\ r.OrgKey # ""
    /\ \E i \in DOMAIN col : col[i].OrgKey = r.OrgKey /\ col[i].Type = r.Type

\* the collection without the dev_key/type unique index
DevTypeIndexMissing(col, r) == FALSE

DevTypeIndexViolated(col, r) ==
    /\ r.DevKey # ""
    /\ \E i \in DOMAIN col : col[i].DevKey = r.DevKey /\ col[i].Type = r.Type

DuplicateKey(col, r) == OrgTypeIndexViolated(col, r) \/ DevTypeIndexViolated(col, r)

\* an insert that reports success and stores nothing
InsertOneLost(col, doc) == col

\* a successful InsertOne adds the document to the collection
InsertOne(col, doc) == Append(col, doc)

(***************************************************************************)
(* The cache maps.  A Go map of maps: a key is either absent or maps to a  *)
(* set of reward types.                                                    *)
(***************************************************************************)
ensureKeyRewardCache(keyCache, key) ==
    IF key \in DOMAIN keyCache THEN keyCache ELSE keyCache @@ (key :> {})

CacheHas(keyCache, key, t) == key \in DOMAIN keyCache /\ t \in keyCache[key]

CacheMark(keyCache, key, t) == [keyCache EXCEPT ![key] = @ \cup {t}]

\* the (key, type) pairs a cache map marks as granted
CachePairs(keyCache) ==
    {p \in (DOMAIN keyCache) \X RewardTypes : p[2] \in keyCache[p[1]]}

EmptyCache == [k \in {} |-> {}]

(***************************************************************************)
(* New: the loop that populates the caches from the filrewards collection. *)
(* The Find has no sort, so the scan order is any order of the documents.  *)
(* cacheOrg[rec.DevKey][rec.Type] = struct{}{} assigns into the map stored *)
(* under rec.DevKey in cacheOrg; when that key is absent the inner map is  *)
(* nil and the assignment panics.                                          *)
(***************************************************************************)
ScanOrders(col) ==
    {o \in [DOMAIN col -> DOMAIN col] : \A i, j \in DOMAIN col : i # j => o[i] # o[j]}

SeedRecord(st, rec) ==
    LET cacheOrg1 == ensureKeyRewardCache(st.cacheOrg, rec.OrgKey)
        cacheDev1 == ensureKeyRewardCache(st.cacheDev, rec.DevKey)
        cacheOrg2 == CacheMark(cacheOrg1, rec.OrgKey, rec.Type)
    IN  IF rec.DevKey \in DOMAIN cacheOrg2
        THEN [panic |-> FALSE, cacheDev |-> cacheDev1,
              cacheOrg |-> CacheMark(cacheOrg2, rec.DevKey, rec.Type)]
        ELSE [panic |-> TRUE, cacheOrg |-> cacheOrg2, cacheDev |-> cacheDev1]

RECURSIVE SeedLoop(_, _, _, _)
SeedLoop(col, order, i, st) ==
    IF st.panic \/ i > Len(col) THEN st
    ELSE SeedLoop(col, order, i + 1, SeedRecord(st, col[order[i]]))

SeedCaches(col, order) ==
    SeedLoop(col, order, 1, [panic |-> FALSE, cacheOrg |-> EmptyCache, cacheDev |-> EmptyCache])

(***************************************************************************)
(* Requests and responses.                                                 *)
(***************************************************************************)
NoRequest ==
    [op |-> "none", OrgKey |-> "", DevKey |-> "", AnalyticsEvent |-> EVENT_UNSPECIFIED,
     ClaimedBy |-> "", Amount |-> 0]

ProcessAnalyticsEventRequest(orgKey, devKey, ev) ==
    [op |-> "ProcessAnalyticsEvent", OrgKey |-> orgKey, DevKey |-> devKey,
     AnalyticsEvent |-> ev, ClaimedBy |-> "", Amount |-> 0]

ClaimRequest(orgKey, claimedBy, amount) ==
    [op |-> "Claim", OrgKey |-> orgKey, DevKey |-> "", AnalyticsEvent |-> EVENT_UNSPECIFIED,
     ClaimedBy |-> claimedBy, Amount |-> amount]

BalanceRequest(orgKey) ==
    [op |-> "Balance", OrgKey |-> orgKey, DevKey |-> "", AnalyticsEvent |-> EVENT_UNSPECIFIED,
     ClaimedBy |-> "", Amount |-> 0]

\* code: "none" (nothing returned yet), "OK" or a gRPC status code ("Aborted"
\* stands for a call cut off by the end of the process); detail: the error
\* message, or what an OK response carries; val: the Reward or the balance
Response(code, detail, val) == [code |-> code, detail |-> detail, val |-> val]
NoResponse == Response("none", "none", <<>>)
\* &pb.ProcessAnalyticsEventResponse{}: the three returns differ only by the
\* line that made them, which detail records
EmptyResponse(why) == Response("OK", why, <<>>)
EmptyDetails == {"no reward type", "granted to org", "granted to dev"}
IsEmptyResponse(r) == r.code = "OK" /\ r.detail \in EmptyDetails
IsRewardResponse(r) == r.code = "OK" /\ r.detail = "reward"

(***************************************************************************)
(* ListRewards and ListClaims: the query, the page, the probe for more.    *)
(***************************************************************************)
\* a list request of either kind; an empty filter string (REWARD_TYPE_UNSPECIFIED
\* for the type) leaves the field out of the query; StartAt is {} for nil
ListRequest(kind, orgKeyFilter, devKeyFilter, rewardTypeFilter, claimedByFilter, limit, ascending, startAt) ==
    [kind |-> kind, OrgKeyFilter |-> orgKeyFilter, DevKeyFilter |-> devKeyFilter,
     RewardTypeFilter |-> rewardTypeFilter, ClaimedByFilter |-> claimedByFilter,
     Limit |-> limit, Ascending |-> ascending, StartAt |-> startAt]

\* the equality part of the bson filter
FilterMatches(q, doc) ==
    /\ q.OrgKeyFilter # "" => doc.OrgKey = q.OrgKeyFilter
    /\ IF q.kind = "rewards"
       THEN /\ q.DevKeyFilter # "" => doc.DevKey = q.DevKeyFilter
            /\ q.RewardTypeFilter # REWARD_TYPE_UNSPECIFIED => doc.Type = q.RewardTypeFilter
       ELSE q.ClaimedByFilter # "" => doc.ClaimedBy = q.ClaimedByFilter

\* comp := "$lt"; it becomes "$gt" only inside `if req.StartAt != nil`
Comp(q) == IF q.StartAt # {} /\ q.Ascending THEN "$gt" ELSE "$lt"

\* filter["created_at"] = bson.M{comp: t}, for the t of `at` ({}: no such entry)
CreatedAtMatches(comp, at, doc) ==
    \A t \in at : IF comp = "$lt" THEN doc.CreatedAt < t ELSE doc.CreatedAt > t

Matching(col, q, comp, at) ==
    {i \in DOMAIN col : FilterMatches(q, col[i]) /\ CreatedAtMatches(comp, at, col[i])}

\* the orders in which a sort on created_at may return the documents S: the
\* order of documents with equal created_at is not determined
SortedOrders(col, S, ascending) ==
    {o \in [1..Cardinality(S) -> S] :
        /\ \A i, j \in DOMAIN o : i # j => o[i] # o[j]
        /\ \A i, j \in DOMAIN o :
              i < j => IF ascending THEN col[o[i]].CreatedAt <= col[o[j]].CreatedAt
                       ELSE col[o[i]].CreatedAt >= col[o[j]].CreatedAt}

Docs(col, o) == [i \in DOMAIN o |-> col[o[i]]]

\* col.Find(ctx, filter, findOpts) and cursor.All: the pages it may return
Find(col, q) ==
    {LET page == Docs(col, o)
     IN  IF q.Limit > 0 /\ q.Limit < Len(page) THEN SubSeq(page, 1, q.Limit) ELSE page :
        o \in SortedOrders(col, Matching(col, q, Comp(q), q.StartAt), q.Ascending)}

\* col.FindOne(ctx, filter) finds a document
FindOne(col, q, comp, at) == Matching(col, q, comp, at) # {}

\* from `more := false` to the response
ListResponse(col, q, page) ==
    LET lastCreatedAt == page[Len(page)].CreatedAt
        more == Len(page) > 0 /\ FindOne(col, q, Comp(q), {lastCreatedAt})
    IN  [items |-> page, More |-> more,
         MoreStartAt |-> IF more THEN {lastCreatedAt} ELSE {}]

NoList ==
    [req |-> ListRequest("none", "", "", REWARD_TYPE_UNSPECIFIED, "", 0, FALSE, {}),
     resp |-> [items |-> <<>>, More |-> FALSE, MoreStartAt |-> {}]]

\* a client that pages: it starts without a cursor and passes the returned
\* cursor back with the same request until More is false; acc collects the
\* pages, size is the size of the collection when it started
NoPager == [st |-> "idle", acc |-> <<>>, size |-> 0]

Paged(col, q, resp) ==
    IF q.StartAt = {}
    THEN [st |-> IF resp.More THEN "paging" ELSE "done", acc |-> resp.items, size |-> Len(col)]
    ELSE IF /\ pager.st = "paging"
            /\ pager.size = Len(col)
            /\ q = [listResp.req EXCEPT !.StartAt = listResp.resp.MoreStartAt]
    THEN [st |-> IF resp.More THEN "paging" ELSE "done", acc |-> pager.acc \o resp.items,
          size |-> pager.size]
    ELSE NoPager

List(col, q) ==
    /\ up
    /\ \E page \in Find(col, q) :
         LET resp == ListResponse(col, q, page)
         IN  /\ listResp' = [req |-> q, resp |-> resp]
             /\ pager' = Paged(col, q, resp)
    /\ UNCHANGED <<storeVars, cacheVars, semaphores, up, pc, req, res, track, now>>

ListRewards(orgKeyFilter, devKeyFilter, rewardTypeFilter, limit, ascending, startAt) ==
    List(rewards, ListRequest("rewards", orgKeyFilter, devKeyFilter, rewardTypeFilter, "",
                              limit, ascending, startAt))

ListClaims(orgKeyFilter, claimedByFilter, limit, ascending, startAt) ==
    List(claims, ListRequest("claims", orgKeyFilter, "", REWARD_TYPE_UNSPECIFIED,
                             claimedByFilter, limit, ascending, startAt))

Init ==
    /\ rewards = <<>>
    /\ claims = <<>>
    /\ rewardsCacheOrg = EmptyCache
    /\ rewardsCacheDev = EmptyCache
    /\ semaphores = [k \in OrgKeys |-> 0]
    /\ up = TRUE
    /\ pc = [t \in Tasks |-> "done"]
    /\ req = [t \in Tasks |-> NoRequest]
    /\ res = [t \in Tasks |-> NoResponse]
    /\ track = [t \in Tasks |-> "none"]
    /\ now = 0
    /\ listResp = NoList
    /\ pager = NoPager

\* a return statement without the deferred lck.Release()
ReturnKeepsLock(self, response) ==
    /\ pc' = [pc EXCEPT ![self] = "done"]
    /\ req' = [req EXCEPT ![self] = NoRequest]
    /\ res' = [res EXCEPT ![self] = response]
    /\ UNCHANGED semaphores

\* a return statement: the response goes back and the deferred lck.Release() runs
Return(self, response) ==
    /\ pc' = [pc EXCEPT ![self] = "done"]
    /\ req' = [req EXCEPT ![self] = NoRequest]
    /\ res' = [res EXCEPT ![self] = response]
    /\ semaphores' = [semaphores EXCEPT ![req[self].OrgKey] = 0]

\* an Acquire that does not wait for the holder to release
AcquireNoWait(self) ==
    /\ pc[self] = "acquire"
    /\ semaphores' = [semaphores EXCEPT ![req[self].OrgKey] = self]
    /\ pc' = [pc EXCEPT ![self] = "locked"]
    /\ UNCHANGED <<storeVars, cacheVars, up, req, res, track, now, listVars>>

\* lck := s.semaphores.Get(orgKeyLock(req.OrgKey)); lck.Acquire()
Acquire(self) ==
    /\ pc[self] = "acquire"
    /\ semaphores[req[self].OrgKey] = 0
    /\ semaphores' = [semaphores EXCEPT ![req[self].OrgKey] = self]
    /\ pc' = [pc EXCEPT ![self] = "locked"]
    /\ UNCHANGED <<storeVars, cacheVars, up, req, res, track, now, listVars>>

(***************************************************************************)
(* ProcessAnalyticsEvent.                                                  *)
(***************************************************************************)
\* the validation without its org key test
InvalidEventRequestNoOrgTest(orgKey, ev) == ev = EVENT_UNSPECIFIED

InvalidEventRequest(orgKey, ev) == orgKey = "" \/ ev = EVENT_UNSPECIFIED

ProcessAnalyticsEvent(self, orgKey, devKey, ev) ==
    /\ up
    /\ pc[self] = "done"
    /\ track' = [track EXCEPT ![self] = "none"]
    /\ IF InvalidEventRequest(orgKey, ev)
       THEN /\ res' = [res EXCEPT ![self] = Response("InvalidArgument",
                                IF orgKey = "" THEN "must provide org key"
                                ELSE "must provide analytics event", <<>>)]
            /\ UNCHANGED <<pc, req>>
       ELSE /\ res' = [res EXCEPT ![self] = NoResponse]
            /\ req' = [req EXCEPT ![self] = ProcessAnalyticsEventRequest(orgKey, devKey, ev)]
            /\ pc' = [pc EXCEPT ![self] = "acquire"]
    /\ UNCHANGED <<storeVars, cacheVars, semaphores, up, now, listVars>>

\* from the switch to the two cache lookups
CheckCaches(self) ==
    LET r == req[self]
        t == RewardTypeOf(r.AnalyticsEvent)
        cacheOrg == ensureKeyRewardCache(rewardsCacheOrg, r.OrgKey)
        cacheDev == ensureKeyRewardCache(rewardsCacheDev, r.DevKey)
    IN  /\ pc[self] = "locked"
        /\ r.op = "ProcessAnalyticsEvent"
        /\ IF t = REWARD_TYPE_UNSPECIFIED
           THEN /\ Return(self, EmptyResponse("no reward type"))
                /\ UNCHANGED cacheVars
           ELSE /\ rewardsCacheOrg' = cacheOrg
                /\ rewardsCacheDev' = cacheDev
                /\ IF CacheHas(cacheOrg, r.OrgKey, t)
                   THEN Return(self, EmptyResponse("granted to org"))
                   ELSE IF CacheHas(cacheDev, r.DevKey, t)
                   THEN Return(self, EmptyResponse("granted to dev"))
                   ELSE /\ pc' = [pc EXCEPT ![self] = "insert"]
                        /\ UNCHANGED <<req, res, semaphores>>
        /\ UNCHANGED <<storeVars, up, track, now, listVars>>

\* the caches marked before the insert, so that a failed insert leaves its mark
InsertRewardMarksFirst(self, storeFails) ==
    LET t == RewardTypeOf(req[self].AnalyticsEvent)
        r == reward(req[self].OrgKey, req[self].DevKey, t, now)
    IN  /\ pc[self] = "insert"
        /\ rewardsCacheOrg' = CacheMark(rewardsCacheOrg, req[self].OrgKey, t)
        /\ rewardsCacheDev' = CacheMark(rewardsCacheDev, req[self].DevKey, t)
        /\ IF storeFails \/ DuplicateKey(rewards, r)
           THEN /\ Return(self, Response("Internal", "store failure", <<>>))
                /\ UNCHANGED rewards
           ELSE /\ rewards' = InsertOne(rewards, r)
                /\ pc' = [pc EXCEPT ![self] = "mark"]
                /\ res' = [res EXCEPT ![self] = Response("none", "reward", r)]
                /\ UNCHANGED <<req, semaphores>>
        /\ UNCHANGED <<claims, up, track, now, listVars>>

\* s.rewardsCol.InsertOne(ctx, r); storeFails is a failure of the store itself
InsertReward(self, storeFails) ==
    LET r == reward(req[self].OrgKey, req[self].DevKey,
                    RewardTypeOf(req[self].AnalyticsEvent), now)
    IN  /\ pc[self] = "insert"
        /\ IF storeFails
           THEN /\ Return(self, Response("Internal", "store failure", <<>>))
                /\ UNCHANGED rewards
           ELSE IF DuplicateKey(rewards, r)
           THEN /\ Return(self, Response("Internal", "duplicate key", <<>>))
                /\ UNCHANGED rewards
           ELSE /\ rewards' = InsertOne(rewards, r)
                /\ pc' = [pc EXCEPT ![self] = "mark"]
                /\ res' = [res EXCEPT ![self] = Response("none", "reward", r)]
                /\ UNCHANGED <<req, semaphores>>
        /\ UNCHANGED <<claims, cacheVars, up, track, now, listVars>>

\* s.rewardsCacheOrg[req.OrgKey][t] = struct{}{}; s.rewardsCacheDev[req.DevKey][t] = struct{}{}
MarkCaches(self) ==
    LET t == RewardTypeOf(req[self].AnalyticsEvent)
    IN  /\ pc[self] = "mark"
        /\ rewardsCacheOrg' = CacheMark(rewardsCacheOrg, req[self].OrgKey, t)
        /\ rewardsCacheDev' = CacheMark(rewardsCacheDev, req[self].DevKey, t)
        /\ pc' = [pc EXCEPT ![self] = "track"]
        /\ UNCHANGED <<storeVars, semaphores, up, req, res, track, now, listVars>>

\* a Track error handed back to the caller instead of being logged
TrackRewardPropagates(self, trackOk) ==
    /\ pc[self] = "track"
    /\ req[self].op = "ProcessAnalyticsEvent"
    /\ track' = [track EXCEPT ![self] = IF trackOk THEN "ok" ELSE "failed"]
    /\ Return(self, IF trackOk THEN Response("OK", "reward", res[self].val)
                    ELSE Response("Internal", "calling analytics track", <<>>))
    /\ UNCHANGED <<storeVars, cacheVars, up, now, listVars>>

\* s.ac.Track(...) and the return that follows it; a Track error is only logged
TrackReward(self, trackOk) ==
    /\ pc[self] = "track"
    /\ req[self].op = "ProcessAnalyticsEvent"
    /\ track' = [track EXCEPT ![self] = IF trackOk THEN "ok" ELSE "failed"]
    /\ Return(self, Response("OK", "reward", res[self].val))
    /\ UNCHANGED <<storeVars, cacheVars, up, now, listVars>>

(***************************************************************************)
(* The aggregation pipelines.  $match on org_key, then $group with a nil   *)
(* _id: no matching document gives no group, and the function falls        *)
(* through to its error return.  $sum of a field a document does not have  *)
(* counts 0 for that document.  Totals stay far below 2^31 here, so the    *)
(* int32 results never wrap.                                               *)
(***************************************************************************)
Field(doc, name) == IF name \in DOMAIN doc THEN doc[name] ELSE 0

\* amt[i]: the value the pipeline computes for document i of the collection
Aggregate(col, orgKey, amt) ==
    LET matched == {i \in DOMAIN col : col[i].OrgKey = orgKey}
    IN  IF matched = {}
        THEN [err |-> TRUE, total |-> -1]
        ELSE [err |-> FALSE, total |-> SumOver(matched, amt)]

\* s.rewardsCol.Aggregate: $multiply [$factor, $base_atto_fil_reward], $sum
totalRewarded(orgKey) ==
    Aggregate(rewards, orgKey,
              [i \in DOMAIN rewards |->
                  Field(rewards[i], "Factor") * Field(rewards[i], "BaseAttoFILReward")])

\* s.rewardsCol.Aggregate: $sum of $amount
totalClaimed(orgKey) ==
    Aggregate(rewards, orgKey, [i \in DOMAIN rewards |-> Field(rewards[i], "Amount")])

(***************************************************************************)
(* Claim.                                                                  *)
(***************************************************************************)
ClaimsInFlight == Cardinality({t \in Tasks : req[t].op = "Claim" /\ pc[t] # "done"})

Claim(self, orgKey, claimedBy, amount) ==
    /\ up
    /\ pc[self] = "done"
    /\ Len(claims) + ClaimsInFlight < MaxClaims
    /\ req' = [req EXCEPT ![self] = ClaimRequest(orgKey, claimedBy, amount)]
    /\ track' = [track EXCEPT ![self] = "none"]
    /\ res' = [res EXCEPT ![self] = NoResponse]
    /\ pc' = [pc EXCEPT ![self] = "acquire"]
    /\ UNCHANGED <<storeVars, cacheVars, semaphores, up, now, listVars>>

\* from totalRewarded to s.claimsCol.InsertOne; every read and the write concern
\* documents of req.OrgKey, which only holders of this semaphore write
InsertClaim(self, storeFails) ==
    LET r == req[self]
        rewarded == totalRewarded(r.OrgKey)
        claimed == totalClaimed(r.OrgKey)
        available == rewarded.total - claimed.total
    IN  /\ pc[self] = "locked"
        /\ r.op = "Claim"
        /\ IF rewarded.err \/ claimed.err
           THEN /\ Return(self, Response("Internal", "no total", <<>>))
                /\ UNCHANGED claims
           ELSE IF r.Amount > available
           THEN /\ Return(self, Response("InvalidArgument", "claim amount is greater", <<>>))
                /\ UNCHANGED claims
           ELSE IF storeFails
           THEN /\ Return(self, Response("Internal", "store failure", <<>>))
                /\ UNCHANGED claims
           ELSE /\ claims' = InsertOne(claims, claim(r.OrgKey, r.ClaimedBy, r.Amount, now))
                /\ pc' = [pc EXCEPT ![self] = "track"]
                /\ UNCHANGED <<req, res, semaphores>>
        /\ UNCHANGED <<rewards, cacheVars, up, track, now, listVars>>

\* s.ac.Track(...) and the return that follows it
TrackClaim(self, trackOk) ==
    /\ pc[self] = "track"
    /\ req[self].op = "Claim"
    /\ track' = [track EXCEPT ![self] = IF trackOk THEN "ok" ELSE "failed"]
    /\ Return(self, Response("OK", "claimed", <<>>))
    /\ UNCHANGED <<storeVars, cacheVars, up, now, listVars>>

(***************************************************************************)
(* Balance.                                                                *)
(***************************************************************************)
BalanceResponse(rewarded, claimed) ==
    [Rewarded |-> rewarded, Claimed |-> claimed, Available |-> rewarded - claimed]

Balance(self, orgKey) ==
    /\ up
    /\ pc[self] = "done"
    /\ req' = [req EXCEPT ![self] = BalanceRequest(orgKey)]
    /\ track' = [track EXCEPT ![self] = "none"]
    /\ res' = [res EXCEPT ![self] = NoResponse]
    /\ pc' = [pc EXCEPT ![self] = "acquire"]
    /\ UNCHANGED <<storeVars, cacheVars, semaphores, up, now, listVars>>

ReadBalance(self) ==
    LET rewarded == totalRewarded(req[self].OrgKey)
        claimed == totalClaimed(req[self].OrgKey)
    IN  /\ pc[self] = "locked"
        /\ req[self].op = "Balance"
        /\ IF rewarded.err \/ claimed.err
           THEN Return(self, Response("Internal", "no total", <<>>))
           ELSE Return(self, Response("OK", "balance", BalanceResponse(rewarded.total, claimed.total)))
        /\ UNCHANGED <<storeVars, cacheVars, up, track, now, listVars>>

(***************************************************************************)
(* The process ends (killed, or crashed by the runtime) and is started     *)
(* again: every call in flight is cut off, and New builds a fresh Service  *)
(* from the collections: fresh caches and a fresh semaphore pool.          *)
(***************************************************************************)
New(order) ==
    LET seeded == SeedCaches(rewards, order)
    IN  /\ up' = ~seeded.panic
        /\ rewardsCacheOrg' = IF seeded.panic THEN EmptyCache ELSE seeded.cacheOrg
        /\ rewardsCacheDev' = IF seeded.panic THEN EmptyCache ELSE seeded.cacheDev
        /\ semaphores' = [k \in OrgKeys |-> 0]
        /\ pc' = [t \in Tasks |-> "done"]
        /\ req' = [t \in Tasks |-> NoRequest]
        /\ res' = [t \in Tasks |-> IF pc[t] = "done" THEN res[t]
                                     ELSE Response("Aborted", "process ended", <<>>)]
        /\ UNCHANGED <<storeVars, track, now, listVars>>

\* time passes
Tick ==
    /\ now < MaxTime
    /\ now' = now + 1
    /\ UNCHANGED <<storeVars, cacheVars, semaphores, up, pc, req, res, track, listVars>>

GrantStep(self) ==
    \/ \E orgKey \in OrgKeys, devKey \in DevKeys, ev \in Events :
          ProcessAnalyticsEvent(self, orgKey, devKey, ev)
    \/ Acquire(self)
    \/ CheckCaches(self)
    \/ \E storeFails \in BOOLEAN : InsertReward(self, storeFails)
    \/ MarkCaches(self)
    \/ \E trackOk \in BOOLEAN : TrackReward(self, trackOk)

ClaimStep(self) ==
    \/ \E orgKey \in OrgKeys : Balance(self, orgKey)
    \/ ReadBalance(self)
    \/ \E orgKey \in OrgKeys, claimedBy \in Claimants, amount \in ClaimAmounts :
          Claim(self, orgKey, claimedBy, amount)
    \/ \E storeFails \in BOOLEAN : InsertClaim(self, storeFails)
    \/ \E trackOk \in BOOLEAN : TrackClaim(self, trackOk)

Restart == \E order \in ScanOrders(rewards) : New(order)

(***************************************************************************)
(* Spec: concurrent ProcessAnalyticsEvent calls and process restarts.      *)
(***************************************************************************)
Next ==
    \/ \E self \in Tasks : GrantStep(self)
    \/ Restart

Spec == Init /\ [][Next]_vars

(***************************************************************************)
(* SpecClaim: concurrent ProcessAnalyticsEvent, Claim and Balance calls.   *)
(***************************************************************************)
NextClaim ==
    \/ \E self \in Tasks : GrantStep(self)
    \/ \E self \in Tasks : ClaimStep(self)

SpecClaim == Init /\ [][NextClaim]_vars

(***************************************************************************)
(* SpecList: one task fills the two collections while the clock advances,  *)
(* and clients list them.  A client passes no cursor or the cursor of the  *)
(* last response.                                                          *)
(***************************************************************************)
ListLimits == {0, 1}
ListOrgKeys == {"a", "b"}
ListClaimAmounts == {50}
Cursors == {{}, listResp.resp.MoreStartAt}

FillStep(self) ==
    \/ \E orgKey \in ListOrgKeys, devKey \in DevKeys :
          ProcessAnalyticsEvent(self, orgKey, devKey, "EVENT_BUCKET_CREATED")
    \/ Acquire(self)
    \/ CheckCaches(self)
    \/ InsertReward(self, FALSE)
    \/ MarkCaches(self)
    \/ TrackReward(self, TRUE)
    \/ \E claimedBy \in Claimants, amount \in ListClaimAmounts :
          Claim(self, "a", claimedBy, amount)
    \/ InsertClaim(self, FALSE)
    \/ TrackClaim(self, TRUE)

NextList ==
    \/ \E self \in ListTasks : FillStep(self)
    \/ Tick
    \/ \E orgKeyFilter \in {"", "a"}, limit \in ListLimits, ascending \in BOOLEAN,
          startAt \in Cursors :
          ListRewards(orgKeyFilter, "", REWARD_TYPE_UNSPECIFIED, limit, ascending, startAt)
    \/ \E claimedByFilter \in {""} \cup Claimants, limit \in ListLimits \ {0},
          ascending \in BOOLEAN, startAt \in Cursors :
          ListClaims("", claimedByFilter, limit, ascending, startAt)

SpecList == Init /\ [][NextList]_vars

(***************************************************************************)
(* SpecLock: two tasks run ProcessAnalyticsEvent, Claim and Balance for    *)
(* two organizations that share one developer key, the store and the       *)
(* analytics client may fail, and the process may end and start again.     *)
(***************************************************************************)
LockOrgKeys == {"a", "b"}
LockEvents == {"EVENT_BUCKET_CREATED", "EVENT_ACCOUNT_SIGN_IN"}
LockClaimAmounts == {50, 250}

\* the steps a task takes once it has the semaphore
SectionStep(self) ==
    \/ CheckCaches(self)
    \/ \E storeFails \in BOOLEAN : InsertReward(self, storeFails)
    \/ MarkCaches(self)
    \/ \E trackOk \in BOOLEAN : TrackReward(self, trackOk)
    \/ ReadBalance(self)
    \/ \E storeFails \in BOOLEAN : InsertClaim(self, storeFails)
    \/ \E trackOk \in BOOLEAN : TrackClaim(self, trackOk)

CallStep(self) ==
    \/ \E orgKey \in LockOrgKeys, ev \in LockEvents :
          ProcessAnalyticsEvent(self, orgKey, "a", ev)
    \/ \E orgKey \in LockOrgKeys, amount \in LockClaimAmounts :
          Claim(self, orgKey, "u", amount)
    \/ \E orgKey \in LockOrgKeys : Balance(self, orgKey)

NextLock ==
    \/ \E self \in Tasks : CallStep(self)
    \/ \E self \in Tasks : Acquire(self)
    \/ \E self \in Tasks : SectionStep(self)
    \/ Restart

SpecLock == Init /\ [][NextLock]_vars

\* the store and the analytics client answer, and the semaphore is handed to
\* every task that keeps waiting for it
SpecLive ==
    /\ Init
    /\ [][NextLock]_vars
    /\ \A self \in Tasks : WF_vars(SectionStep(self)) /\ SF_vars(Acquire(self))

(***************************************************************************)
(* SpecSeed: one task earns rewards of two types for two organizations,    *)
(* and the process ends and starts again, seeding the caches from them.    *)
(***************************************************************************)
SeedEvents == {"EVENT_BUCKET_CREATED", "EVENT_KEY_USER_CREATED"}

SeedStep(self) ==
    \/ \E orgKey \in LockOrgKeys, devKey \in DevKeys, ev \in SeedEvents :
          ProcessAnalyticsEvent(self, orgKey, devKey, ev)
    \/ Acquire(self)
    \/ CheckCaches(self)
    \/ \E storeFails \in BOOLEAN : InsertReward(self, storeFails)
    \/ MarkCaches(self)
    \/ \E trackOk \in BOOLEAN : TrackReward(self, trackOk)

NextSeed ==
    \/ \E self \in ListTasks : SeedStep(self)
    \/ Restart

SpecSeed == Init /\ [][NextSeed]_vars

(***************************************************************************)
(* Properties.                                                             *)
(***************************************************************************)
RewardsIn(col, orgKey, t) == {i \in DOMAIN col : col[i].OrgKey = orgKey /\ col[i].Type = t}
RewardsWith(orgKey, t) == RewardsIn(rewards, orgKey, t)
RewardsWithDev(devKey, t) == {i \in DOMAIN rewards : rewards[i].DevKey = devKey /\ rewards[i].Type = t}

AllReturned == \A t \in Tasks : pc[t] = "done"

\* task self returns from ProcessAnalyticsEvent in this step
EventReturns(self) ==
    /\ req[self].op = "ProcessAnalyticsEvent"
    /\ pc[self] # "done"
    /\ pc'[self] = "done"
    /\ res'[self].code # "Aborted"

\* C1 as stated: for every non-empty organization key k and reward type t the
\* ledger never holds more than one Reward with (k, t), and once every call has
\* returned, the last of them a call for (k, t) with a non-empty developer key
\* that returned without error (so no append of it failed), the ledger holds
\* exactly one Reward with (k, t).
C1_ExactlyOneAfterCalls ==
    /\ [](\A k \in OrgKeys \ {""}, t \in RewardTypes : Cardinality(RewardsWith(k, t)) <= 1)
    /\ [][\A self \in Tasks :
            (/\ EventReturns(self)
             /\ RewardTypeOf(req[self].AnalyticsEvent) # REWARD_TYPE_UNSPECIFIED
             /\ req[self].DevKey # ""
             /\ res'[self].code = "OK"
             /\ AllReturned')
            => Cardinality(RewardsIn(rewards', req[self].OrgKey,
                                     RewardTypeOf(req[self].AnalyticsEvent))) = 1]_vars

\* C1 as amended: for every non-empty organization key k and reward type t the
\* ledger never holds more than one Reward with (k, t), and when a
\* ProcessAnalyticsEvent call for k whose event maps to t returns a Reward, the
\* ledger holds exactly one Reward with (k, t), the one returned.
C1_AtMostOneAndGrantRecorded ==
    /\ [](\A k \in OrgKeys \ {""}, t \in RewardTypes : Cardinality(RewardsWith(k, t)) <= 1)
    /\ [][\A self \in Tasks :
            (EventReturns(self) /\ IsRewardResponse(res'[self]))
            => LET k == req[self].OrgKey
                   t == RewardTypeOf(req[self].AnalyticsEvent)
               IN  /\ Cardinality(RewardsIn(rewards', k, t)) = 1
                   /\ \A i \in RewardsIn(rewards', k, t) : rewards'[i] = res'[self].val]_vars

\* two calls for the same organization and event are in flight, one has
\* inserted and marked and still holds the semaphore, the other waits for it
C1_Witness ==
    \E s, t \in Tasks :
        /\ s # t
        /\ pc[s] = "track"
        /\ pc[t] = "acquire"
        /\ req[s].op = "ProcessAnalyticsEvent"
        /\ req[t].op = "ProcessAnalyticsEvent"
        /\ req[s].OrgKey = req[t].OrgKey
        /\ req[s].AnalyticsEvent = req[t].AnalyticsEvent
        /\ Cardinality(RewardsWith(req[s].OrgKey, RewardTypeOf(req[s].AnalyticsEvent))) = 1

\* the (organization key, type) or (non-empty developer key, type) of a request
\* is already in the ledger
AlreadyRewarded(r) ==
    \/ RewardsWith(r.OrgKey, RewardTypeOf(r.AnalyticsEvent)) # {}
    \/ r.DevKey # "" /\ RewardsWithDev(r.DevKey, RewardTypeOf(r.AnalyticsEvent)) # {}

\* C4: when ProcessAnalyticsEvent, holding the semaphore, looks up a request
\* whose event maps to no reward type or whose (organization key, type) or
\* (non-empty developer key, type) is already in the ledger, it returns the
\* empty result with no error and appends nothing.
C4_DuplicateReturnsEmpty ==
    [][\A self \in Tasks :
        (/\ req[self].op = "ProcessAnalyticsEvent"
         /\ pc[self] = "locked"
         /\ pc'[self] # "locked"
         /\ res'[self].code # "Aborted"
         /\ \/ RewardTypeOf(req[self].AnalyticsEvent) = REWARD_TYPE_UNSPECIFIED
            \/ AlreadyRewarded(req[self]))
        => /\ pc'[self] = "done"
           /\ IsEmptyResponse(res'[self])
           /\ rewards' = rewards]_vars

\* C5: for every non-empty developer key d and reward type t the ledger holds
\* at most one Reward with (d, t).
C5_AtMostOnePerDevKey ==
    \A d \in DevKeys \ {""}, t \in RewardTypes : Cardinality(RewardsWithDev(d, t)) <= 1

\* two calls for different organizations carry the same developer key; one has
\* inserted and not yet marked the caches, the other was refused by the index
C5_Witness ==
    \E s, t \in Tasks :
        /\ s # t
        /\ pc[s] = "mark"
        /\ req[s].DevKey # ""
        /\ pc[t] = "done"
        /\ res[t].code = "Internal"
        /\ res[t].detail = "duplicate key"
        /\ ~CacheHas(rewardsCacheDev, req[s].DevKey, RewardTypeOf(req[s].AnalyticsEvent))

\* C9: after New has seeded the caches from the ledger, the organization-key
\* cache marks exactly the pairs (r.OrgKey, r.Type) and the developer-key cache
\* exactly the pairs (r.DevKey, r.Type) of the Rewards r of the ledger.
C9_SeedExact ==
    [][\A order \in ScanOrders(rewards) :
        (New(order) /\ up')
        => /\ CachePairs(rewardsCacheOrg') = {<<r.OrgKey, r.Type>> : r \in Range(rewards)}
           /\ CachePairs(rewardsCacheDev') = {<<r.DevKey, r.Type>> : r \in Range(rewards)}]_vars

\* C10: a ProcessAnalyticsEvent call with an empty organization key or with the
\* unspecified event returns invalid-argument at once and changes nothing: no
\* Reward, no cache entry, no Track call, no semaphore taken.
C10_InvalidRequestRejected ==
    [][\A self \in {t \in Tasks : pc[t] = "done"} :
       \A in \in {i \in OrgKeys \X DevKeys \X Events : i[1] = "" \/ i[3] = EVENT_UNSPECIFIED} :
        ProcessAnalyticsEvent(self, in[1], in[2], in[3])
        => /\ res'[self].code = "InvalidArgument"
           /\ pc'[self] = "done"
           /\ track'[self] = "none"
           /\ UNCHANGED <<rewards, claims, rewardsCacheOrg, rewardsCacheDev, semaphores>>]_vars

\* a call without an organization key was turned down while the other task
\* holds a semaphore
C10_Witness ==
    \E s, t \in Tasks :
        /\ res[s].code = "InvalidArgument"
        /\ res[s].detail = "must provide org key"
        /\ pc[s] = "done"
        /\ pc[t] = "insert"

\* what the two ledgers hold for an organization
RewardedSum(orgKey) ==
    LET of == {i \in DOMAIN rewards : rewards[i].OrgKey = orgKey}
    IN  SumOver(of, [i \in of |-> rewards[i].Factor * rewards[i].BaseAttoFILReward])
ClaimedSumIn(col, orgKey) ==
    LET of == {i \in DOMAIN col : col[i].OrgKey = orgKey}
    IN  SumOver(of, [i \in of |-> col[i].Amount])
ClaimedSum(orgKey) == ClaimedSumIn(claims, orgKey)
HasRewards(orgKey) == \E i \in DOMAIN rewards : rewards[i].OrgKey = orgKey
HasClaims(orgKey) == \E i \in DOMAIN claims : claims[i].OrgKey = orgKey

\* task self leaves the locked part of Claim / of Balance in this step
ClaimDecides(self) ==
    req[self].op = "Claim" /\ pc[self] = "locked" /\ pc'[self] # "locked"
BalanceReturns(self) ==
    req[self].op = "Balance" /\ pc[self] = "locked" /\ pc'[self] = "done"

\* C2: for every organization the amounts of its Claim records never sum to
\* more than factor x base amount over its Reward records, and a Claim request
\* for more than rewarded - claimed fails with invalid-argument and writes no
\* Claim record (stated for organizations that have Reward records; the
\* organization without any is the case of C6).
C2_ClaimsWithinRewards ==
    /\ [](\A k \in OrgKeys : ClaimedSum(k) <= RewardedSum(k))
    /\ [][\A self \in Tasks :
            (ClaimDecides(self)
             /\ HasRewards(req[self].OrgKey)
             /\ req[self].Amount > RewardedSum(req[self].OrgKey) - ClaimedSum(req[self].OrgKey))
            => /\ res'[self].code = "InvalidArgument"
               /\ claims' = claims]_vars

\* C3: once Claim records exist for an organization (claims of positive
\* amounts, as in the example), Balance reports claimed as the sum of their
\* amounts, rewarded as the sum over its Reward records, and available as
\* rewarded - claimed.
C3_BalanceAfterClaim ==
    [][\A self \in Tasks :
        (/\ BalanceReturns(self)
         /\ HasClaims(req[self].OrgKey)
         /\ \A i \in DOMAIN claims : claims[i].Amount > 0)
        => /\ res'[self].code = "OK"
           /\ res'[self].detail = "balance"
           /\ res'[self].val = BalanceResponse(RewardedSum(req[self].OrgKey),
                                               ClaimedSum(req[self].OrgKey))]_vars

\* C6: for an organization without Reward records or without Claim records the
\* missing aggregate counts as zero: Balance returns successfully with it, and
\* Claim decides on it instead of failing with an internal error.
C6_EmptyAggregateIsZero ==
    [][\A self \in Tasks :
        LET k == req[self].OrgKey
        IN  /\ (BalanceReturns(self) /\ (~HasRewards(k) \/ ~HasClaims(k)))
               => /\ res'[self].code = "OK"
                  /\ res'[self].detail = "balance"
                  /\ ~HasRewards(k) => res'[self].val.Rewarded = 0
                  /\ ~HasClaims(k) => res'[self].val.Claimed = 0
            /\ (ClaimDecides(self) /\ (~HasRewards(k) \/ ~HasClaims(k)))
               => res'[self].detail # "no total"]_vars


(***************************************************************************)
(* Listing                                                                 *)
(***************************************************************************)
ListedCol(q) == IF q.kind = "rewards" THEN rewards ELSE claims

\* what the same query returns without a limit and without a cursor
Unlimited(col, q) == Find(col, [q EXCEPT !.Limit = 0, !.StartAt = {}])

\* a document of the query's filter strictly beyond doc in the sort direction
Beyond(col, q, doc) ==
    \E i \in DOMAIN col :
        /\ FilterMatches(q, col[i])
        /\ IF q.Ascending THEN col[i].CreatedAt > doc.CreatedAt
           ELSE col[i].CreatedAt < doc.CreatedAt

\* C7: a client that starts without a cursor and follows the returned cursor
\* until More is false, over a collection that did not change, has seen
\* exactly the records of the unlimited query, in the same order.
C7_PaginationRoundTrip ==
    (/\ pager.st = "done"
     /\ listResp.req.Limit > 0
     /\ pager.size = Len(ListedCol(listResp.req)))
        => pager.acc \in Unlimited(ListedCol(listResp.req), listResp.req)

\* C8: in every list response More is true exactly when a record of the
\* filter lies strictly beyond the last returned item in the sort direction;
\* the next cursor is that item's creation time when More is true and absent
\* when it is false.
C8_MoreAndCursor ==
    [][listResp' # listResp =>
        LET q == listResp'.req
            resp == listResp'.resp
            n == Len(resp.items)
            col == IF q.kind = "rewards" THEN rewards' ELSE claims'
        IN  /\ resp.More = (n > 0 /\ Beyond(col, q, resp.items[n]))
            /\ resp.MoreStartAt = IF resp.More THEN {resp.items[n].CreatedAt} ELSE {}]_vars

(***************************************************************************)
(* The analytics client                                                    *)
(***************************************************************************)
\* the record the call of task self appended is in its ledger
Appended(self) ==
    IF req[self].op = "ProcessAnalyticsEvent"
    THEN \E i \in DOMAIN rewards : rewards[i] = res[self].val
    ELSE \E i \in DOMAIN claims :
            /\ claims[i].OrgKey = req[self].OrgKey
            /\ claims[i].ClaimedBy = req[self].ClaimedBy
            /\ claims[i].Amount = req[self].Amount

\* C11: the Track call of ProcessAnalyticsEvent and of Claim is made once per
\* operation, after the append to the ledger succeeded, and whether it
\* succeeds or fails the operation returns the same successful result and
\* leaves the ledgers and the caches as they were.
C11_TrackFailureHarmless ==
    [][\A self \in Tasks :
        /\ (track'[self] # track[self] /\ track'[self] # "none")
           => /\ track[self] = "none"
              /\ pc[self] = "track"
              /\ Appended(self)
        /\ \A trackOk \in BOOLEAN :
              (TrackReward(self, trackOk) \/ TrackClaim(self, trackOk))
              => /\ res'[self] = IF req[self].op = "ProcessAnalyticsEvent"
                                 THEN Response("OK", "reward", res[self].val)
                                 ELSE Response("OK", "claimed", <<>>)
                 /\ UNCHANGED <<rewards, claims, rewardsCacheOrg, rewardsCacheDev>>]_vars

\* a grant and a claim have both returned successfully although their Track
\* calls failed
C11_Witness ==
    \E s, t \in Tasks :
        /\ pc[s] = "done" /\ track[s] = "failed" /\ IsRewardResponse(res[s])
        /\ res[s].val \in Range(rewards)
        /\ pc[t] = "done" /\ track[t] = "failed"
        /\ res[t] = Response("OK", "claimed", <<>>)
        /\ claims # <<>>

(***************************************************************************)
(* The caches against the ledger                                           *)
(***************************************************************************)
\* every (key, type) pair a cache map marks as granted, whatever the type
Marked(keyCache) == UNION {{<<k, t>> : t \in keyCache[k]} : k \in DOMAIN keyCache}

C13_AppendFailureLeavesNoMark ==
    [][\A self \in Tasks :
        LET k == req[self].OrgKey
            d == req[self].DevKey
            t == RewardTypeOf(req[self].AnalyticsEvent)
        IN  /\ (pc[self] = "insert" /\ pc'[self] = "done" /\ res'[self].code # "Aborted")
               => /\ res'[self].code = "Internal"
                  /\ UNCHANGED <<rewards, rewardsCacheOrg, rewardsCacheDev>>
                  /\ ~CacheHas(rewardsCacheOrg', k, t)
            /\ (EventReturns(self) /\ IsRewardResponse(res'[self]))
               => /\ CacheHas(rewardsCacheOrg', k, t)
                  /\ CacheHas(rewardsCacheDev', d, t)]_vars

\* the append of one call failed in the store and left nothing behind, and a
\* later call for the same organization has passed the cache lookups
C13_Witness ==
    \E s, t \in Tasks :
        /\ pc[s] = "done"
        /\ res[s] = Response("Internal", "store failure", <<>>)
        /\ rewards = <<>>
        /\ Marked(rewardsCacheOrg) = {} /\ Marked(rewardsCacheDev) = {}
        /\ pc[t] = "insert"
        /\ DOMAIN rewardsCacheOrg = {req[t].OrgKey}

(***************************************************************************)
(* The semaphore pool                                                      *)
(***************************************************************************)
\* task self is between lck.Acquire() and the deferred lck.Release()
InSection(self) == pc[self] \in {"locked", "insert", "mark", "track"}

\* C14: at most one of the calls ProcessAnalyticsEvent, Claim and Balance for
\* one organization key is between its Acquire and its Release; every step in
\* which such a call reads or writes a ledger or a cache is taken by the
\* holder of its organization's semaphore, and nothing but such a step (or
\* the seeding of a starting process) changes a ledger or a cache.
C14_MutualExclusion ==
    /\ [](\A s, t \in Tasks :
            (s # t /\ InSection(s) /\ InSection(t)) => req[s].OrgKey # req[t].OrgKey)
    /\ [][/\ \A self \in Tasks :
               SectionStep(self) => InSection(self) /\ semaphores[req[self].OrgKey] = self
          /\ <<rewards, claims, rewardsCacheOrg, rewardsCacheDev>>'
                # <<rewards, claims, rewardsCacheOrg, rewardsCacheDev>>
             => (Restart \/ \E self \in Tasks : SectionStep(self))]_vars

\* calls for two organizations are inside their sections at the same time,
\* each holding the semaphore of its own organization
C14_Witness ==
    \E s, t \in Tasks :
        /\ InSection(s) /\ InSection(t)
        /\ req[s].OrgKey = "a" /\ req[t].OrgKey = "b"
        /\ semaphores["a"] = s /\ semaphores["b"] = t

\* C15: a call that leaves its section, by whichever return, leaves the
\* semaphore of its organization free, and a semaphore is held only by a call
\* inside its section; hence, when the store and the analytics client answer
\* and the semaphore is handed over fairly, every call that waits for a
\* semaphore gets it and returns.
C15_ReleaseAndProgress ==
    /\ [][\A self \in Tasks :
            (InSection(self) /\ pc'[self] = "done") => semaphores'[req[self].OrgKey] = 0]_vars
    /\ [](\A k \in OrgKeys :
            semaphores[k] # 0 => InSection(semaphores[k]) /\ req[semaphores[k]].OrgKey = k)
    /\ \A self \in Tasks : (pc[self] = "acquire") ~> (pc[self] = "done")

\* a call waits for the semaphore that a call of the same organization holds
C15_Witness ==
    \E s, t \in Tasks :
        /\ s # t
        /\ pc[t] = "acquire"
        /\ InSection(s)
        /\ semaphores[req[t].OrgKey] = s

\* C16: when ProcessAnalyticsEvent or Claim makes its Track call the call no
\* longer holds the semaphore of its organization, so that no call of the
\* same organization waits for the semaphore while Track runs.
C16_TrackOutsideLock ==
    [][\A self \in Tasks :
        (track'[self] # track[self] /\ track'[self] # "none")
        => /\ semaphores[req[self].OrgKey] # self
           /\ \A t \in Tasks \ {self} :
                 ~(pc[t] = "acquire" /\ req[t].OrgKey = req[self].OrgKey)]_vars

(***************************************************************************)
(* Access to the cache maps.  The two maps are fields of the one Service;  *)
(* a call reads and writes them at lines 222-233 (the step CheckCaches)    *)
(* and writes them at lines 248-249 (the step MarkCaches).  Two such steps *)
(* that are enabled together are ordered by nothing and may overlap.       *)
(***************************************************************************)
\* the next step of task self reads or writes the cache maps
AtCacheAccess(self) ==
    /\ req[self].op = "ProcessAnalyticsEvent"
    /\ \/ pc[self] = "mark"
       \/ pc[self] = "locked" /\ RewardTypeOf(req[self].AnalyticsEvent) # REWARD_TYPE_UNSPECIFIED

\* task self is in its sequence of lookup, insert and mark
InCheckThenMark(self) == AtCacheAccess(self) \/ pc[self] = "insert"

\* C17: no two calls are at an access to the cache maps at the same time, and
\* no two calls that carry the same developer key are in their check-then-mark
\* sequence at the same time.
C17_CacheAccessSerialized ==
    \A s, t \in Tasks :
        s # t => /\ ~(AtCacheAccess(s) /\ AtCacheAccess(t))
                 /\ (InCheckThenMark(s) /\ InCheckThenMark(t))
                    => req[s].DevKey # req[t].DevKey

\* C18: a ProcessAnalyticsEvent call whose event maps to a type t, for an
\* organization that has no Reward of type t, with a developer key that is
\* empty or has no Reward of type t, is not taken for a duplicate, whatever
\* other organizations have been granted: it goes on to append its Reward.
C18_NoCrossOrgSuppression ==
    [][\A self \in Tasks :
        LET r == req[self]
            t == RewardTypeOf(r.AnalyticsEvent)
        IN  (/\ r.op = "ProcessAnalyticsEvent"
             /\ pc[self] = "locked"
             /\ pc'[self] # "locked"
             /\ res'[self].code # "Aborted"
             /\ t # REWARD_TYPE_UNSPECIFIED
             /\ RewardsWith(r.OrgKey, t) = {}
             /\ (r.DevKey = "" \/ RewardsWithDev(r.DevKey, t) = {}))
            => pc'[self] = "insert"]_vars

\* C19: no Claim record has a negative amount, and a Claim request with a
\* negative amount is turned down (it returns an error) and writes nothing.
C19_NonNegativeClaims ==
    /\ [](\A i \in DOMAIN claims : claims[i].Amount >= 0)
    /\ [][\A self \in Tasks :
            (ClaimDecides(self) /\ req[self].Amount < 0)
            => /\ pc'[self] = "done"
               /\ res'[self].code \notin {"OK", "none"}
               /\ claims' = claims]_vars
====
